---- MODULE Spec2Model ----
(***************************************************************************)
(* A model of package properties (the Java-style property table codec)     *)
(* and of package getopt (the command-line option parser) of go-utils.     *)
(*                                                                         *)
(* Representation.  A byte stream or byte slice is a sequence of integers  *)
(* 0..255.  A Go string held by a Table is modelled by the sequence of the *)
(* runes that `range` yields over it; every string the package builds is   *)
(* written rune by rune with WriteRune, so it is valid UTF-8 and the two   *)
(* views carry the same information.  Runes are integers.                  *)
(***************************************************************************)
EXTENDS Integers, Sequences, FiniteSets, TLC

(***************************************************************************)
(* Characters the code names.                                              *)
(***************************************************************************)
TAB == 9
LF == 10
FF == 12
CR == 13
SP == 32
BANG == 33
HASH == 35
COLON == 58
EQ == 61
BS == 92
RuneError == 65533
MaxRune == 1114111

(***************************************************************************)
(* unicode/utf8 and unicode/utf16, as the package uses them.               *)
(***************************************************************************)
IsSurrogate(r) == 55296 <= r /\ r < 57344

ValidRune(r) == IF 0 <= r /\ r <= MaxRune /\ ~IsSurrogate(r) THEN r ELSE RuneError

IsCont(b) == 128 <= b /\ b <= 191

\* utf8.EncodeRune: the bytes of r; an invalid rune is written as RuneError.
EncodeRune(r0) ==
    LET r == ValidRune(r0) IN
    IF r < 128 THEN <<r>>
    ELSE IF r < 2048 THEN <<192 + (r \div 64), 128 + (r % 64)>>
    ELSE IF r < 65536
         THEN <<224 + (r \div 4096), 128 + ((r \div 64) % 64), 128 + (r % 64)>>
    ELSE <<240 + (r \div 262144), 128 + ((r \div 4096) % 64),
           128 + ((r \div 64) % 64), 128 + (r % 64)>>

\* utf8.DecodeRune: <<rune, size>>; <<RuneError, 0>> on empty input and
\* <<RuneError, 1>> on an invalid or truncated encoding.
DecodeRune(p) ==
    LET n == Len(p) IN
    IF n < 1 THEN <<RuneError, 0>>
    ELSE LET p0 == p[1] IN
      IF p0 < 128 THEN <<p0, 1>>
      ELSE IF 194 <= p0 /\ p0 <= 223
      THEN IF n >= 2 /\ IsCont(p[2])
           THEN <<(p0 - 192) * 64 + (p[2] - 128), 2>>
           ELSE <<RuneError, 1>>
      ELSE IF 224 <= p0 /\ p0 <= 239
      THEN LET lo == IF p0 = 224 THEN 160 ELSE 128
               hi == IF p0 = 237 THEN 159 ELSE 191
           IN IF n >= 3 /\ lo <= p[2] /\ p[2] <= hi /\ IsCont(p[3])
              THEN <<(p0 - 224) * 4096 + (p[2] - 128) * 64 + (p[3] - 128), 3>>
              ELSE <<RuneError, 1>>
      ELSE IF 240 <= p0 /\ p0 <= 244
      THEN LET lo == IF p0 = 240 THEN 144 ELSE 128
               hi == IF p0 = 244 THEN 143 ELSE 191
           IN IF n >= 4 /\ lo <= p[2] /\ p[2] <= hi /\ IsCont(p[3]) /\ IsCont(p[4])
              THEN <<(p0 - 240) * 262144 + (p[2] - 128) * 4096
                      + (p[3] - 128) * 64 + (p[4] - 128), 4>>
              ELSE <<RuneError, 1>>
      ELSE <<RuneError, 1>>

\* utf16.EncodeRune: the surrogate pair <<r1, r2>> of a rune above 0xffff.
utf16EncodeRune(r) ==
    IF r < 65536 \/ r > MaxRune THEN <<RuneError, RuneError>>
    ELSE <<55296 + (((r - 65536) \div 1024) % 1024), 56320 + ((r - 65536) % 1024)>>

\* utf16.DecodeRune: the rune a surrogate pair encodes.
utf16DecodeRune(r1, r2) ==
    IF 55296 <= r1 /\ r1 < 56320 /\ 56320 <= r2 /\ r2 < 57344
    THEN (r1 - 55296) * 1024 + (r2 - 56320) + 65536
    ELSE RuneError

\* p[i:] of a Go slice, i counted from 0.
From(p, i) == SubSeq(p, i + 1, Len(p))

(***************************************************************************)
(* escapeRune: the bytes written into p; their number is the result.       *)
(***************************************************************************)
HexDigit(b) == IF b > 9 THEN b + 87 ELSE b + 48

\* An escapeRune that writes the low surrogate before the high one.
escapeRuneLowFirst(r) ==
    LET esc(q) == <<BS, 117, HexDigit((q \div 4096) % 16), HexDigit((q \div 256) % 16),
                    HexDigit((q \div 16) % 16), HexDigit(q % 16)>>
    IN IF r > 65535 THEN esc(utf16EncodeRune(r)[2]) \o esc(utf16EncodeRune(r)[1])
       ELSE IF 32 <= r /\ r <= 126 THEN <<>>
       ELSE esc(IF r < 0 THEN RuneError ELSE r)

RECURSIVE escapeRune(_)
escapeRune(r) ==
    IF r > 65535
    THEN LET s == utf16EncodeRune(r) IN escapeRune(s[1]) \o escapeRune(s[2])
    ELSE IF 32 <= r /\ r <= 126 THEN <<>>
    ELSE LET q == IF r < 0 THEN RuneError ELSE r IN
         <<BS, 117, HexDigit((q \div 4096) % 16), HexDigit((q \div 256) % 16),
           HexDigit((q \div 16) % 16), HexDigit(q % 16)>>

(***************************************************************************)
(* unescapeRune: <<rune, bytes parsed>>.                                   *)
(***************************************************************************)
HexValue(b) ==
    IF 48 <= b /\ b <= 57 THEN b - 48
    ELSE IF 97 <= b /\ b <= 102 THEN b - 87
    ELSE IF 65 <= b /\ b <= 70 THEN b - 55
    ELSE -1

\* The loop `for i := 2; i < n; i++`: <<r, n>> when it ends.
RECURSIVE hexLoop(_, _, _, _)
hexLoop(p, i, n, r) ==
    IF i >= n THEN <<r, n>>
    ELSE LET b == HexValue(p[i + 1]) IN
         IF b < 0 THEN <<r, i>> ELSE hexLoop(p, i + 1, n, r * 16 + b)

\* An unescapeRune that takes a backslash only with the byte after it.
unescapeRuneNoProgress(p) ==
    IF Len(p) < 2 \/ p[1] # BS THEN <<RuneError, 0>>
    ELSE <<DecodeRune(From(p, 1))[1], DecodeRune(From(p, 1))[2] + 1>>

RECURSIVE unescapeRune(_)
unescapeRune(p) ==
    IF Len(p) < 1 \/ p[1] # BS THEN <<RuneError, 0>>
    ELSE LET d == DecodeRune(From(p, 1)) IN
      IF d[1] = 116 THEN <<TAB, 2>>
      ELSE IF d[1] = 110 THEN <<LF, 2>>
      ELSE IF d[1] = 102 THEN <<FF, 2>>
      ELSE IF d[1] = 114 THEN <<CR, 2>>
      ELSE IF d[1] # 117 THEN <<d[1], d[2] + 1>>
      ELSE LET h == hexLoop(p, 2, IF Len(p) > 6 THEN 6 ELSE Len(p), 0)
               n == h[2]
               r == IF n < 6 THEN RuneError ELSE h[1]
           IN IF IsSurrogate(r)
              THEN LET u == unescapeRune(From(p, 6)) IN
                   IF u[2] # 6 \/ ~IsSurrogate(u[1]) THEN <<RuneError, 6>>
                   ELSE <<utf16DecodeRune(r, u[1]), 12>>
              ELSE <<r, n>>

isDelimiter(r) == r = EQ \/ r = COLON

isSpace(r) == r = TAB \/ r = FF \/ r = SP

isCommentPrefix(r) == r = HASH \/ r = BANG

(***************************************************************************)
(* unescape: [s: the text, n: bytes parsed, panic: the slice expression    *)
(* p[size:] of line 148 was evaluated with size > len(p)].                 *)
(***************************************************************************)
\* The inner loop of lines 137-144: [ret, n] where ret says that line 140
\* returned, and n is the count of bytes parsed.
RECURSIVE skipSeparators(_, _)
skipSeparators(p, n) ==
    IF Len(p) = 0 THEN [ret |-> FALSE, n |-> n]
    ELSE LET d == DecodeRune(p) IN
         IF ~(isSpace(d[1]) \/ isDelimiter(d[1])) THEN [ret |-> TRUE, n |-> n]
         ELSE skipSeparators(From(p, d[2]), n + d[2])

RECURSIVE unescapeLoop(_, _, _, _)
unescapeLoop(p, split, b, n) ==
    IF Len(p) = 0 THEN [s |-> b, n |-> n, panic |-> FALSE]
    ELSE LET u == unescapeRune(p) IN
      IF u[2] # 0
      THEN unescapeLoop(From(p, u[2]), split, Append(b, ValidRune(u[1])), n + u[2])
      ELSE LET d == DecodeRune(p) IN
        IF split /\ (isSpace(d[1]) \/ isDelimiter(d[1]))
        THEN LET k == skipSeparators(From(p, d[2]), n + d[2]) IN
             IF k.ret THEN [s |-> b, n |-> k.n, panic |-> FALSE]
             \* the inner loop ran p empty: line 148 slices p[size:] with
             \* size >= 1 and len(p) = 0, a run-time panic
             ELSE [s |-> b, n |-> k.n, panic |-> TRUE]
        ELSE unescapeLoop(From(p, d[2]), split, Append(b, ValidRune(d[1])), n + d[2])

unescape(p, split) == unescapeLoop(p, split, <<>>, 0)

(***************************************************************************)
(* escape: the bytes written for a key-value pair.                         *)
(***************************************************************************)
\* Lines 318-336: the bytes of one rune of the key.
escapeKeyRune(r, ascii) ==
    LET e == IF ascii THEN escapeRune(r) ELSE <<>> IN
    IF Len(e) # 0 THEN e
    ELSE IF r = LF THEN <<BS, 110>>
    ELSE IF r = CR THEN <<BS, 114>>
    ELSE (IF isSpace(r) \/ isDelimiter(r) \/ isCommentPrefix(r) THEN <<BS>> ELSE <<>>)
         \o EncodeRune(r)

\* Lines 344-362: the bytes of one rune of the value.
escapeValueRune(r, ascii) ==
    LET e == IF ascii THEN escapeRune(r) ELSE <<>> IN
    IF Len(e) # 0 THEN e
    ELSE IF r = LF THEN <<BS, 110>>
    ELSE IF r = CR THEN <<BS, 114>>
    ELSE (IF isCommentPrefix(r) THEN <<BS>> ELSE <<>>) \o EncodeRune(r)

\* The loops `for _, r = range`: the bytes of the runes of t from i on.
RECURSIVE escapeRunes(_, _, _, _)
escapeRunes(t, i, ascii, isKey) ==
    IF i > Len(t) THEN <<>>
    ELSE (IF isKey THEN escapeKeyRune(t[i], ascii) ELSE escapeValueRune(t[i], ascii))
         \o escapeRunes(t, i + 1, ascii, isKey)

escape(key, value, ascii) ==
    escapeRunes(key, 1, ascii, TRUE)
    \o <<EQ>>
    \o (IF Len(value) > 0 /\ (isSpace(value[1]) \/ isDelimiter(value[1]))
        THEN <<BS>> ELSE <<>>)
    \o escapeRunes(value, 1, ascii, FALSE)

(***************************************************************************)
(* escapeComment: the bytes of the comment header.                         *)
(***************************************************************************)
RECURSIVE escapeCommentLoop(_, _, _, _)
escapeCommentLoop(text, i, last, ascii) ==
    IF i > Len(text) THEN <<>>
    ELSE LET r == text[i] IN
      IF r = LF \/ r = CR
      THEN EncodeRune(r) \o escapeCommentLoop(text, i + 1, r, ascii)
      ELSE LET e == IF ascii THEN escapeRune(r) ELSE <<>> IN
           (IF (last = LF \/ last = CR) /\ ~isCommentPrefix(r) THEN <<HASH>> ELSE <<>>)
           \o (IF Len(e) # 0 THEN e ELSE EncodeRune(r))
           \o escapeCommentLoop(text, i + 1, r, ascii)

\* An escapeComment that takes the text to begin in the middle of a line.
escapeCommentBare(text, ascii) == escapeCommentLoop(text, 1, 0, ascii)

escapeComment(text, ascii) == escapeCommentLoop(text, 1, LF, ascii)

(***************************************************************************)
(* loadBytes.  The reader is the byte sequence s, the index i of the next  *)
(* byte ReadByte returns (from 1) and end, the error ReadByte reports once *)
(* the bytes are exhausted: "EOF" or "ErrIO".  The result is [b, e, pos]:  *)
(* the bytes of the logical line, the error ("nil" for none) and the index *)
(* of the next byte to read.                                               *)
(***************************************************************************)
\* Lines 162-167: the index of the first byte from i on that is no white
\* space, Len(s) + 1 when ReadByte fails first.
RECURSIVE skipSpace(_, _)
skipSpace(s, i) ==
    IF i <= Len(s) /\ (s[i] = TAB \/ s[i] = FF \/ s[i] = SP)
    THEN skipSpace(s, i + 1)
    ELSE i

\* The comment test left out: a comment line is read as any other line.
isCommentMissed(x, b) == FALSE

\* Line 168: the natural line is a comment.
isComment(x, b) == (x = HASH \/ x = BANG) /\ Len(b) = 0

\* Lines 173-177: the parity of the run of backslashes that x ends.
nextEsc(esc, x) == IF x = BS THEN ~esc ELSE FALSE

\* Lines 172-183: [b, esc, i] with i the index of the end-of-line byte that
\* stopped the loop, Len(s) + 1 when ReadByte failed first.
RECURSIVE copyLine(_, _, _, _)
copyLine(s, i, b, esc) ==
    IF i > Len(s) \/ s[i] = LF \/ s[i] = CR
    THEN [b |-> b, esc |-> esc, i |-> i]
    ELSE copyLine(s, i + 1, Append(b, s[i]), nextEsc(esc, s[i]))

\* One round of the loop `for !done` of lines 157-203, entered with b
\* accumulated and i the next byte.
RECURSIVE loadBytesLoop(_, _, _, _)
loadBytesLoop(s, end, i, b) ==
    LET j == skipSpace(s, i) IN
    IF j > Len(s) THEN [b |-> b, e |-> end, pos |-> j]
    ELSE
      LET done == isComment(s[j], b)
          c == copyLine(s, j, b, FALSE)
      IN
      IF c.i > Len(s) THEN [b |-> c.b, e |-> end, pos |-> c.i]
      ELSE IF s[c.i] = CR /\ c.i + 1 > Len(s)
      THEN [b |-> c.b, e |-> end, pos |-> c.i + 1]
      ELSE
        LET next == IF s[c.i] = CR /\ s[c.i + 1] = LF THEN c.i + 2 ELSE c.i + 1 IN
        IF ~done /\ c.esc
        THEN loadBytesLoop(s, end, next, SubSeq(c.b, 1, Len(c.b) - 1))
        ELSE [b |-> c.b, e |-> "nil", pos |-> next]

loadBytes(s, end, i) == loadBytesLoop(s, end, i, <<>>)

(***************************************************************************)
(* The table and the state of a Load call.                                 *)
(***************************************************************************)
VARIABLES
    data,       \* Table.data: the map of the table
    stream,     \* the bytes of the io.Reader that Load reads
    pos,        \* the index in stream of the next byte ReadByte returns
    line,       \* the local b of Load: the logical line read last
    count,      \* the local count of Load
    pc,         \* "loop": in the loop of Load; "returned"; "panicked";
                \* "idle": between calls on a table; "stored": written out;
                \* "call", "done", "decoded": the calls of the decoders;
                \* "parse": between calls on a parser
    err,        \* the error that Load returned ("nil" for none)
    res,        \* the result of the last call of unescapeRune
    ascii,      \* the ascii argument of Store and Save
    comments,   \* the comments argument of Save
    out,        \* the io.Writer: the byte slices of the Write calls, in order
    hist,       \* the tables that were written out, in order
    defaults,   \* Table.defaults: 0 for nil, or the index in tables
    tables,     \* the other tables of the program: [data, defaults] each
    ret,        \* the method called last on the table or the parser, and
                \* what it returned
    args,       \* Parser.args
    optIndex,   \* Parser.optIndex
    optPos,     \* Parser.optPos
    opts,       \* Parser.opts
    hasArg,     \* Parser.hasArg
    done,       \* Parser.done
    calls       \* what the calls of Next (or Option) returned, in order

\* The fields of a Table other than data, and the tables they point to.
tableVars == <<defaults, tables>>

\* The fields of a Parser, and the record of its calls.
parserVars == <<args, optIndex, optPos, opts, hasArg, done, calls>>

EmptyMap == [k \in {} |-> <<>>]

\* p.data[key] = value
MapSet(m, key, value) ==
    [k \in DOMAIN m \cup {key} |-> IF k = key THEN value ELSE m[k]]

\* One round of the loop of Load, lines 287-301; end is the error the reader
\* reports if its bytes run out during this round.
LoadLine(end) ==
    /\ pc = "loop"
    /\ LET l == loadBytes(stream, end, pos)
           isPair == Len(l.b) > 0 /\ l.b[1] # HASH /\ l.b[1] # BANG
           k == unescape(l.b, TRUE)
           v == unescape(From(l.b, k.n), FALSE)
       IN
       /\ line' = l.b
       /\ pos' = l.pos
       /\ IF isPair /\ k.panic
          THEN /\ pc' = "panicked"
               /\ UNCHANGED <<data, count, err>>
          ELSE /\ IF isPair
                  THEN data' = MapSet(data, k.s, v.s) /\ count' = count + 1
                  ELSE UNCHANGED <<data, count>>
               /\ IF l.e = "nil"
                  THEN pc' = "loop" /\ UNCHANGED err
                  ELSE /\ pc' = "returned"
                       /\ err' = IF l.e = "EOF" THEN "nil" ELSE l.e
    /\ UNCHANGED <<stream, res, ascii, comments, out, hist, ret, tableVars, parserVars>>

\* Set, lines 512-517.
Set(key, value) ==
    /\ pc = "idle"
    /\ data' = MapSet(data, key, value)
    /\ ret' = [op |-> "Set"]
    /\ UNCHANGED <<stream, pos, line, count, pc, err, res, ascii, comments, out, hist>>
    /\ UNCHANGED <<tableVars, parserVars>>

\* The orders in which `range p.data` may yield the keys of m.
Orders(m) ==
    {f \in [1..Cardinality(DOMAIN m) -> DOMAIN m] :
        \A i, j \in DOMAIN f : i # j => f[i] # f[j]}

\* The Write calls of the loop of Store, lines 411-419, from the i-th key on.
RECURSIVE storeWrites(_, _, _, _)
storeWrites(m, order, i, a) ==
    IF i > Len(order) THEN <<>>
    ELSE <<escape(order[i], m[order[i]], a), <<LF>>>> \o storeWrites(m, order, i + 1, a)

\* A Store that writes the pairs of the defaults table as well.
StoreWithDefaults(order) ==
    /\ pc \in {"idle", "returned"}
    /\ LET m == IF defaults = 0 THEN EmptyMap ELSE tables[defaults].data
           more == CHOOSE o \in Orders(m) : TRUE
       IN /\ out' = storeWrites(data, order, 1, ascii) \o storeWrites(m, more, 1, ascii)
          /\ count' = Len(order) + Len(more)
    /\ hist' = Append(hist, data)
    /\ pc' = "stored"
    /\ ret' = [op |-> "Store"]
    /\ UNCHANGED <<data, stream, pos, line, err, res, ascii, comments>>
    /\ UNCHANGED <<tableVars, parserVars>>

\* Store, lines 408-421, on a writer that accepts every Write.
Store(order) ==
    /\ pc \in {"idle", "returned"}
    /\ out' = storeWrites(data, order, 1, ascii)
    /\ count' = Len(order)
    /\ hist' = Append(hist, data)
    /\ pc' = "stored"
    /\ ret' = [op |-> "Store"]
    /\ UNCHANGED <<data, stream, pos, line, err, res, ascii, comments>>
    /\ UNCHANGED <<tableVars, parserVars>>

\* Save, lines 433-442, on a writer that accepts every Write.
Save(order) ==
    /\ pc = "idle"
    /\ out' = <<escapeComment(comments, ascii), <<LF>>>>
              \o storeWrites(data, order, 1, ascii)
    /\ count' = Len(order)
    /\ hist' = Append(hist, data)
    /\ pc' = "stored"
    /\ ret' = [op |-> "Save"]
    /\ UNCHANGED <<data, stream, pos, line, err, res, ascii, comments>>
    /\ UNCHANGED <<tableVars, parserVars>>

\* The bytes the writer received.
RECURSIVE Flatten(_)
Flatten(w) == IF Len(w) = 0 THEN <<>> ELSE Head(w) \o Flatten(Tail(w))

\* LoadString, lines 308-311, of the text written last, on a new Table:
\* the reader is set up and Load enters its loop (lines 281-286).
LoadString ==
    /\ pc = "stored"
    /\ data' = EmptyMap
    /\ stream' = Flatten(out)
    /\ pos' = 1
    /\ line' = <<>>
    /\ count' = 0
    /\ err' = "nil"
    /\ pc' = "loop"
    /\ UNCHANGED <<res, ascii, comments, out, hist, ret, tableVars, parserVars>>

(***************************************************************************)
(* The defaults chain.  The table the methods are called on has the map    *)
(* data and the pointer defaults; the tables made before it are kept in    *)
(* tables, and a pointer is an index of tables, 0 for nil.  A defaults     *)
(* pointer is set when its table is made and never assigned again, so it   *)
(* points to a table made earlier.                                         *)
(***************************************************************************)
\* NewTable, lines 479-484: the program goes on with the new table, and the
\* table it had is kept in tables.
NewTable(m) ==
    /\ pc = "idle"
    /\ tables' = Append(tables, [data |-> data, defaults |-> defaults])
    /\ data' = m
    /\ defaults' = 0
    /\ ret' = [op |-> "NewTable"]
    /\ UNCHANGED <<stream, pos, line, count, pc, err, res, ascii, comments, out, hist>>
    /\ UNCHANGED parserVars

\* NewTableDefaults, lines 469-474, given the table of index d, which is
\* the table the program had when d is the last index.
NewTableDefaults(d) ==
    /\ pc = "idle"
    /\ tables' = Append(tables, [data |-> data, defaults |-> defaults])
    /\ d \in 1..Len(tables')
    /\ data' = EmptyMap
    /\ defaults' = d
    /\ ret' = [op |-> "NewTableDefaults"]
    /\ UNCHANGED <<stream, pos, line, count, pc, err, res, ascii, comments, out, hist>>
    /\ UNCHANGED parserVars

\* A Lookup that asks the defaults table for its own pairs only.
TableLookupOneLevel(h, m, d, key) ==
    IF key \in DOMAIN m THEN <<m[key], TRUE>>
    ELSE IF d # 0 /\ key \in DOMAIN h[d].data THEN <<h[d].data[key], TRUE>>
    ELSE <<<<>>, FALSE>>

\* Lookup, lines 490-500, on the table with map m and defaults d:
\* <<value, found>>.
RECURSIVE TableLookup(_, _, _, _)
TableLookup(h, m, d, key) ==
    IF key \in DOMAIN m THEN <<m[key], TRUE>>
    ELSE IF d # 0
    THEN LET r == TableLookup(h, h[d].data, h[d].defaults, key) IN
         IF r[2] THEN <<r[1], TRUE>> ELSE <<<<>>, FALSE>>
    ELSE <<<<>>, FALSE>>

Lookup(key) ==
    /\ pc = "idle"
    /\ LET r == TableLookup(tables, data, defaults, key) IN
       ret' = [op |-> "Lookup", key |-> key, value |-> r[1], found |-> r[2]]
    /\ UNCHANGED <<data, stream, pos, line, count, pc, err, res, ascii, comments, out, hist>>
    /\ UNCHANGED <<tableVars, parserVars>>

\* Get, lines 505-508.
Get(key) ==
    /\ pc = "idle"
    /\ ret' = [op |-> "Get", key |-> key,
               value |-> TableLookup(tables, data, defaults, key)[1]]
    /\ UNCHANGED <<data, stream, pos, line, count, pc, err, res, ascii, comments, out, hist>>
    /\ UNCHANGED <<tableVars, parserVars>>

\* delete(p.data, key)
MapDelete(m, key) == [k \in DOMAIN m \ {key} |-> m[k]]

\* Delete, lines 521-523.
Delete(key) ==
    /\ pc = "idle"
    /\ data' = MapDelete(data, key)
    /\ ret' = [op |-> "Delete"]
    /\ UNCHANGED <<stream, pos, line, count, pc, err, res, ascii, comments, out, hist>>
    /\ UNCHANGED <<tableVars, parserVars>>

\* The table with its defaults emptied as well.
ClearDeep ==
    /\ pc = "idle"
    /\ data' = EmptyMap
    /\ tables' = IF defaults = 0 THEN tables
                 ELSE [tables EXCEPT ![defaults].data = EmptyMap]
    /\ ret' = [op |-> "Clear"]
    /\ UNCHANGED <<stream, pos, line, count, pc, err, res, ascii, comments, out, hist>>
    /\ UNCHANGED <<defaults, parserVars>>

\* Clear, lines 527-529.
Clear ==
    /\ pc = "idle"
    /\ data' = EmptyMap
    /\ ret' = [op |-> "Clear"]
    /\ UNCHANGED <<stream, pos, line, count, pc, err, res, ascii, comments, out, hist>>
    /\ UNCHANGED <<tableVars, parserVars>>

\* Only the table itself emptied.
clearAllShallow(h, d) == h

\* p.defaults.ClearAll(), lines 535-537: the tables once the chain that
\* starts at d is emptied.
RECURSIVE clearAll(_, _)
clearAll(h, d) ==
    IF d = 0 THEN h
    ELSE clearAll([h EXCEPT ![d].data = EmptyMap], h[d].defaults)

\* ClearAll, lines 533-538.
ClearAll ==
    /\ pc = "idle"
    /\ data' = EmptyMap
    /\ tables' = clearAll(tables, defaults)
    /\ ret' = [op |-> "ClearAll"]
    /\ UNCHANGED <<stream, pos, line, count, pc, err, res, ascii, comments, out, hist>>
    /\ UNCHANGED <<defaults, parserVars>>

\* The map t of Keys, lines 542-550: the keys of the chain.
RECURSIVE keysOfChain(_, _, _)
keysOfChain(h, m, d) ==
    DOMAIN m \cup (IF d = 0 THEN {} ELSE keysOfChain(h, h[d].data, h[d].defaults))

\* Keys, lines 541-558; order is the order in which `range t` yields.
Keys(order) ==
    /\ pc = "idle"
    /\ ret' = [op |-> "Keys", keys |-> order]
    /\ UNCHANGED <<data, stream, pos, line, count, pc, err, res, ascii, comments, out, hist>>
    /\ UNCHANGED <<tableVars, parserVars>>

\* String, lines 456-464; order is the order in which `range p.data` yields.
String(order) ==
    /\ pc = "idle"
    /\ out' = storeWrites(data, order, 1, FALSE)
    /\ hist' = Append(hist, data)
    /\ pc' = "stored"
    /\ ret' = [op |-> "String"]
    /\ UNCHANGED <<data, stream, pos, line, count, err, res, ascii, comments>>
    /\ UNCHANGED <<tableVars, parserVars>>

\* SaveString, lines 447-451: Save on a strings.Builder, which accepts
\* every Write.
SaveString(order) ==
    /\ pc = "idle"
    /\ out' = <<escapeComment(comments, ascii), <<LF>>>>
              \o storeWrites(data, order, 1, ascii)
    /\ hist' = Append(hist, data)
    /\ pc' = "stored"
    /\ ret' = [op |-> "SaveString"]
    /\ UNCHANGED <<data, stream, pos, line, count, err, res, ascii, comments>>
    /\ UNCHANGED <<tableVars, parserVars>>

\* A call of unescapeRune on the bytes of stream.
CallUnescapeRune ==
    /\ pc = "call"
    /\ res' = unescapeRune(stream)
    /\ pc' = "done"
    /\ UNCHANGED <<data, stream, pos, line, count, err, ascii, comments, out, hist>>
    /\ UNCHANGED <<ret, tableVars, parserVars>>

\* A call of unescape, with split false, on the bytes of stream.
CallUnescape ==
    /\ pc = "done"
    /\ LET u == unescape(stream, FALSE) IN
       ret' = [op |-> "unescape", s |-> u.s, n |-> u.n, panic |-> u.panic]
    /\ pc' = "decoded"
    /\ UNCHANGED <<data, stream, pos, line, count, err, res, ascii, comments, out, hist>>
    /\ UNCHANGED <<tableVars, parserVars>>

\* Load, lines 280-303, as a function: the table and whether line 291
\* panicked, when the bytes of s from i on are loaded into the map m from a
\* reader that ends with io.EOF.
RECURSIVE loadAll(_, _, _)
loadAll(s, i, m) ==
    LET l == loadBytes(s, "EOF", i)
        isPair == Len(l.b) > 0 /\ l.b[1] # HASH /\ l.b[1] # BANG
        k == unescape(l.b, TRUE)
        v == unescape(From(l.b, k.n), FALSE)
    IN IF isPair /\ k.panic THEN [data |-> m, panic |-> TRUE]
       ELSE LET m2 == IF isPair THEN MapSet(m, k.s, v.s) ELSE m IN
            IF l.e = "nil" THEN loadAll(s, l.pos, m2)
            ELSE [data |-> m2, panic |-> FALSE]

vars == <<data, stream, pos, line, count, pc, err, res, ascii, comments, out, hist,
          ret, tableVars, parserVars>>

(***************************************************************************)
(* Package getopt.  An argument and the options string are sequences of    *)
(* bytes; optIndex and optPos count from 0 as in the code.  An error is    *)
(* "nil", "ErrOption" or "ErrNoArg".                                       *)
(***************************************************************************)
EndOption == -1

DASH == 45

\* strings.IndexByte, counted from 0; -1 when b is not in s.
IndexByte(s, b) ==
    IF \A i \in 1..Len(s) : s[i] # b THEN -1
    ELSE (CHOOSE i \in 1..Len(s) : s[i] = b /\ \A j \in 1..(i - 1) : s[j] # b) - 1

\* The body of Next, getopt.go lines 35-75, on a parser with the fields
\* a (args), o (opts), i (optIndex), q (optPos) and h (hasArg): the fields
\* it leaves, what it returns, and whether it returned at line 42, 47 or 51.
parseNext(a, o, i, q, h) ==
    LET i0 == IF h THEN i + 1 ELSE i
        q0 == IF h THEN 0 ELSE q
        end(ix) == [optIndex |-> ix, optPos |-> q0, hasArg |-> FALSE,
                    rune |-> EndOption, err |-> "nil", end |-> TRUE]
    IN
    IF i0 >= Len(a) THEN end(i0)
    ELSE LET s == a[i0 + 1] IN
      IF q0 = 0 /\ (Len(s) <= 1 \/ s[1] # DASH) THEN end(i0)
      ELSE IF q0 = 0 /\ Len(s) = 2 /\ s[2] = DASH THEN end(i0 + 1)
      ELSE
        LET q1 == IF q0 = 0 THEN 1 ELSE q0
            b == s[q1 + 1]
            wrap == q1 + 1 >= Len(s)
            i1 == IF wrap THEN i0 + 1 ELSE i0
            q2 == IF wrap THEN 0 ELSE q1 + 1
            r(e, ha) == [optIndex |-> i1, optPos |-> q2, hasArg |-> ha,
                         rune |-> b, err |-> e, end |-> FALSE]
            x == IndexByte(o, b)
        IN
        IF b <= 32 \/ b = COLON \/ b = DASH \/ b >= 127 THEN r("ErrOption", FALSE)
        ELSE IF x < 0 THEN r("ErrOption", FALSE)
        ELSE IF x + 1 < Len(o) /\ o[x + 2] = COLON
             THEN IF i1 >= Len(a) THEN r("ErrNoArg", FALSE) ELSE r("nil", TRUE)
        ELSE r("nil", FALSE)

\* An OptArg that forgets the position in the argument.
OptArgWhole(a, i, q, h) == IF ~h THEN <<>> ELSE a[i + 1]

\* OptArg, getopt.go lines 82-87, on a parser with these fields.
OptArgOf(a, i, q, h) == IF ~h THEN <<>> ELSE From(a[i + 1], q)

OptArg == OptArgOf(args, optIndex, optPos, hasArg)

\* Args, getopt.go lines 25-32.
Args == From(args, IF hasArg THEN optIndex + 1 ELSE optIndex)

\* NewParser, getopt.go lines 78-80.
NewParser(a, o) ==
    /\ args = a
    /\ optIndex = 1
    /\ optPos = 0
    /\ opts = o
    /\ hasArg = FALSE
    /\ done = FALSE
    /\ calls = <<>>

\* A call of Next, followed by a call of OptArg; both results are recorded.
ParserNext ==
    /\ pc = "parse"
    /\ LET n == parseNext(args, opts, optIndex, optPos, hasArg) IN
       /\ optIndex' = n.optIndex
       /\ optPos' = n.optPos
       /\ hasArg' = n.hasArg
       /\ calls' = Append(calls, [rune |-> n.rune, err |-> n.err,
                                  optArg |-> OptArgOf(args, n.optIndex, n.optPos, n.hasArg)])
    /\ ret' = [op |-> "Next"]
    /\ UNCHANGED <<data, stream, pos, line, count, pc, err, res, ascii, comments, out, hist>>
    /\ UNCHANGED <<tableVars, args, opts, done>>

\* A call of Option, part_002 lines 53-101, followed by a call of OptArg.
Option ==
    /\ pc = "parse"
    /\ IF done
       THEN /\ calls' = Append(calls, [rune |-> EndOption, err |-> "nil", optArg |-> OptArg])
            /\ UNCHANGED <<optIndex, optPos, hasArg, done>>
       ELSE LET n == parseNext(args, opts, optIndex, optPos, hasArg) IN
            /\ optIndex' = n.optIndex
            /\ optPos' = n.optPos
            /\ hasArg' = n.hasArg
            /\ done' = n.end
            /\ calls' = Append(calls, [rune |-> n.rune, err |-> n.err,
                                       optArg |-> OptArgOf(args, n.optIndex, n.optPos, n.hasArg)])
    /\ ret' = [op |-> "Option"]
    /\ UNCHANGED <<data, stream, pos, line, count, pc, err, res, ascii, comments, out, hist>>
    /\ UNCHANGED <<tableVars, args, opts>>

(***************************************************************************)
(* Bounds and inputs.                                                      *)
(***************************************************************************)
MaxInput == 5

\* A table made by NewTable and no other table; no method was called.
NoTables ==
    /\ defaults = 0
    /\ tables = <<>>
    /\ ret = [op |-> "none"]

\* A parser made by NewParser for a command line without arguments.
NoParser ==
    /\ args = <<<<>>>>
    /\ optIndex = 1
    /\ optPos = 0
    /\ opts = <<>>
    /\ hasArg = FALSE
    /\ done = FALSE
    /\ calls = <<>>

SeqsUpTo(S, n) == UNION {[1..m -> S] : m \in 0..n}

\* The bytes of the streams given to Load: 'k', the separators, the
\* backslash, the end-of-line bytes and a comment prefix.
LoadAlphabet == {107, EQ, SP, BS, LF, CR, HASH}

(***************************************************************************)
(* Spec: Load called on a new table, for every stream within the bounds;   *)
(* the stream ends with io.EOF or with another error.                      *)
(***************************************************************************)
Init ==
    /\ data = EmptyMap
    /\ stream \in SeqsUpTo(LoadAlphabet, MaxInput)
    /\ pos = 1
    /\ line = <<>>
    /\ count = 0
    /\ pc = "loop"
    /\ err = "nil"
    /\ res = <<RuneError, 0>>
    /\ ascii = FALSE
    /\ comments = <<>>
    /\ out = <<>>
    /\ hist = <<>>
    /\ NoTables
    /\ NoParser

Next == \E end \in {"EOF", "ErrIO"} : LoadLine(end)

Spec == Init /\ [][Next]_vars

(***************************************************************************)
(* SpecRune: unescapeRune called on the concatenations of at most          *)
(* MaxChunks pieces of escape sequences.                                   *)
(***************************************************************************)
MaxChunks == 6

\* `\u`, `d8`, `dc`, `00`, `z` and a backslash.
EscChunks == {<<BS, 117>>, <<100, 56>>, <<100, 99>>, <<48, 48>>, <<122>>, <<BS>>}

InitRune ==
    /\ data = EmptyMap
    /\ stream \in {Flatten(c) : c \in SeqsUpTo(EscChunks, MaxChunks)}
    /\ pos = 1
    /\ line = <<>>
    /\ count = 0
    /\ pc = "call"
    /\ err = "nil"
    /\ res = <<RuneError, 0>>
    /\ ascii = FALSE
    /\ comments = <<>>
    /\ out = <<>>
    /\ hist = <<>>
    /\ NoTables
    /\ NoParser

NextRune == CallUnescapeRune \/ CallUnescape

SpecRune == InitRune /\ [][NextRune]_vars

(***************************************************************************)
(* SpecRoundTrip: a table is filled with Set, written with Store and the   *)
(* text is loaded into a new table with LoadString, which is written and   *)
(* loaded again, MaxRounds times in all.                                   *)
(***************************************************************************)
MaxTableSize == 3

MaxRounds == 2

\* The runes of the keys and values: 'k', the backslash, the tab, '=' and
\* U+1F600.
StoreRunes == {107, BS, TAB, EQ, 128512}

\* The size of a table: its runes, and one for each pair.
RECURSIVE SumSizes(_, _)
SumSizes(m, S) ==
    IF S = {} THEN 0
    ELSE LET k == CHOOSE x \in S : TRUE IN
         Len(k) + Len(m[k]) + 1 + SumSizes(m, S \ {k})

TableSize(m) == SumSizes(m, DOMAIN m)

InitRoundTrip ==
    /\ data = EmptyMap
    /\ stream = <<>>
    /\ pos = 1
    /\ line = <<>>
    /\ count = 0
    /\ pc = "idle"
    /\ err = "nil"
    /\ res = <<RuneError, 0>>
    /\ ascii \in BOOLEAN
    /\ comments = <<>>
    /\ out = <<>>
    /\ hist = <<>>
    /\ NoTables
    /\ NoParser

NextRoundTrip ==
    \/ \E key \in SeqsUpTo(StoreRunes, MaxTableSize - 1) :
         \* the runes left for the value, once key and its pair are counted
         LET room == MaxTableSize - TableSize(data) - Len(key) - 1
                       + (IF key \in DOMAIN data
                          THEN Len(key) + Len(data[key]) + 1 ELSE 0)
         IN /\ room >= 0
            /\ \E value \in SeqsUpTo(StoreRunes, room) : Set(key, value)
    \/ \E order \in Orders(data) : Len(hist) < MaxRounds /\ Store(order)
    \/ LoadString
    \/ LoadLine("EOF")

SpecRoundTrip == InitRoundTrip /\ [][NextRoundTrip]_vars

(***************************************************************************)
(* SpecSave: Save called with every comments string within the bounds, and *)
(* the text loaded into a new table with LoadString.                       *)
(***************************************************************************)
MaxComment == 4

\* The runes of the comments: 'a', the end-of-line runes, '#' and U+20AC.
CommentRunes == {97, LF, CR, HASH, 8364}

SaveTables == {EmptyMap, (<<107>> :> <<118>>)}

InitSave ==
    /\ data \in SaveTables
    /\ stream = <<>>
    /\ pos = 1
    /\ line = <<>>
    /\ count = 0
    /\ pc = "idle"
    /\ err = "nil"
    /\ res = <<RuneError, 0>>
    /\ ascii \in BOOLEAN
    /\ comments \in SeqsUpTo(CommentRunes, MaxComment)
    /\ out = <<>>
    /\ hist = <<>>
    /\ NoTables
    /\ NoParser

NextSave ==
    \/ \E order \in Orders(data) : Save(order)
    \/ LoadString
    \/ LoadLine("EOF")

SpecSave == InitSave /\ [][NextSave]_vars

(***************************************************************************)
(* SpecTable: tables are made with NewTable and NewTableDefaults, the      *)
(* methods of Table are called on the table made last, and it is written   *)
(* out with Store, Save, SaveString or String.                             *)
(***************************************************************************)
MaxTables == 2

\* The keys 'k' and 'l'; the values 'v' and a line feed.
TableKeys == {<<107>>, <<108>>}

TableValues == {<<118>>, <<LF>>}

\* The pairs given to Set: 'k' with either value, 'l' with 'v'.
TablePairs == {<<<<107>>, <<118>>>>, <<<<107>>, <<LF>>>>, <<<<108>>, <<118>>>>}

\* The maps given to NewTable.
TableMaps ==
    {m \in UNION {[S -> TableValues] : S \in SUBSET TableKeys} :
        \A k \in DOMAIN m : <<k, m[k]>> \in TablePairs}

InitTable ==
    /\ data \in TableMaps
    /\ stream = <<>>
    /\ pos = 1
    /\ line = <<>>
    /\ count = 0
    /\ pc = "idle"
    /\ err = "nil"
    /\ res = <<RuneError, 0>>
    /\ ascii = TRUE
    /\ comments = <<97>>
    /\ out = <<>>
    /\ hist = <<>>
    /\ NoTables
    /\ NoParser

NextTable ==
    \/ \E m \in TableMaps : Len(tables) < MaxTables /\ NewTable(m)
    \/ \E d \in 1..MaxTables : Len(tables) < MaxTables /\ NewTableDefaults(d)
    \/ \E kv \in TablePairs : Set(kv[1], kv[2])
    \/ \E key \in TableKeys : Lookup(key)
    \/ \E key \in TableKeys : Get(key)
    \/ \E key \in TableKeys : Delete(key)
    \/ Clear
    \/ ClearAll
    \/ \E order \in Orders([k \in keysOfChain(tables, data, defaults) |-> TRUE]) :
         Keys(order)
    \/ \E order \in Orders(data) : Store(order)
    \/ \E order \in Orders(data) : Save(order)
    \/ \E order \in Orders(data) : SaveString(order)
    \/ \E order \in Orders(data) : String(order)

SpecTable == InitTable /\ [][NextTable]_vars

(***************************************************************************)
(* SpecGetopt: a parser made by NewParser for every command line within    *)
(* the bounds, and Next called MaxCalls times at most.  SpecOption: the    *)
(* same with Option, the variant of part_002.                              *)
(***************************************************************************)
MaxArgs == 3

MaxCalls == 6

\* The arguments: `-ab`, `-b`, `-bc`, `-x`, `--`, `-` and `c`.
ArgStrings ==
    {<<DASH, 97, 98>>, <<DASH, 98>>, <<DASH, 98, 99>>, <<DASH, 120>>,
     <<DASH, DASH>>, <<DASH>>, <<99>>}

\* The command lines: the name of the program and the arguments.
CommandLines == {<<<<112>>>> \o a : a \in SeqsUpTo(ArgStrings, MaxArgs)}

\* The options strings `ab:` and `a:b`.
OptionSpecs == {<<97, 98, COLON>>, <<97, COLON, 98>>}

InitGetopt ==
    /\ data = EmptyMap
    /\ stream = <<>>
    /\ pos = 1
    /\ line = <<>>
    /\ count = 0
    /\ pc = "parse"
    /\ err = "nil"
    /\ res = <<RuneError, 0>>
    /\ ascii = FALSE
    /\ comments = <<>>
    /\ out = <<>>
    /\ hist = <<>>
    /\ defaults = 0
    /\ tables = <<>>
    /\ ret = [op |-> "none"]
    /\ \E a \in CommandLines, o \in OptionSpecs : NewParser(a, o)

NextGetopt == Len(calls) < MaxCalls /\ ParserNext

SpecGetopt == InitGetopt /\ [][NextGetopt]_vars

NextOption == Len(calls) < MaxCalls /\ Option

SpecOption == InitGetopt /\ [][NextOption]_vars

(***************************************************************************)
(* The text grammar of the README, stated on the bytes of a stream and     *)
(* without the reader: the properties below compare Load with it.          *)
(***************************************************************************)
IsEol(b) == b = LF \/ b = CR

IsWhite(b) == b = TAB \/ b = FF \/ b = SP

IsSeparator(b) == IsWhite(b) \/ b = EQ \/ b = COLON

\* A byte that stands for itself in a key: ASCII, no separator, no
\* backslash and no end-of-line.
IsKeyByte(b) == b < 128 /\ ~IsSeparator(b) /\ ~IsEol(b) /\ b # BS

\* A key byte that is no comment prefix either: it can start a key.
IsPlain(b) == IsKeyByte(b) /\ b # HASH /\ b # BANG

\* The first index from i on whose byte does not satisfy P, Len(s) + 1 if none.
FirstNot(s, i, P(_)) ==
    CHOOSE j \in i..(Len(s) + 1) :
        /\ j = Len(s) + 1 \/ ~P(s[j])
        /\ \A m \in i..(j - 1) : P(s[m])

FirstNonSpace(s, i) == FirstNot(s, i, IsWhite)

\* The index of the end-of-line byte that ends the natural line of index i.
NaturalLineEnd(s, i) ==
    CHOOSE j \in i..(Len(s) + 1) :
        /\ j = Len(s) + 1 \/ IsEol(s[j])
        /\ \A m \in i..(j - 1) : ~IsEol(s[m])

\* The index after the end-of-line sequence ('\n', '\r' or '\r\n') at e.
AfterEol(s, e) == IF e + 1 <= Len(s) /\ s[e] = CR /\ s[e + 1] = LF THEN e + 2 ELSE e + 1

\* The number of contiguous backslashes that end s[j..e-1].
TrailingBackslashes(s, j, e) ==
    Cardinality({m \in j..(e - 1) : \A q \in m..(e - 1) : s[q] = BS})

Backslashes(n) == [i \in 1..n |-> BS]

\* The index after the leading key bytes of s, and those bytes.
KeyEnd(s) == FirstNot(s, 1, IsKeyByte)

KeyOf(s) == SubSeq(s, 1, KeyEnd(s) - 1)

\* The stream is one natural line without end-of-line, made of a key
\* without escapes that the end of the line or a separator ends.
IsKeyLine(s) ==
    /\ Len(s) > 0
    /\ IsPlain(s[1])
    /\ \A i \in 1..Len(s) : ~IsEol(s[i])
    /\ KeyEnd(s) <= Len(s) => IsSeparator(s[KeyEnd(s)])

\* Where the value of a key line begins by the grammar: after the key, the
\* white space, at most one delimiter and the white space after it.
ValueStart(s) ==
    LET d == FirstNonSpace(s, KeyEnd(s)) IN
    IF d <= Len(s) /\ (s[d] = EQ \/ s[d] = COLON) THEN FirstNonSpace(s, d + 1) ELSE d

(***************************************************************************)
(* C3.  A logical line made of a key followed by nothing or only by white  *)
(* space and delimiters loads as that key with the empty value: Load       *)
(* returns, and the table holds exactly the key, mapped to "".             *)
(***************************************************************************)
C3_KeyWithoutValueLoadsEmpty ==
    (pc # "loop" /\ IsKeyLine(stream)
        /\ \A i \in KeyEnd(stream)..Len(stream) : IsSeparator(stream[i]))
    => (pc = "returned" /\ data = (KeyOf(stream) :> <<>>))

(***************************************************************************)
(* C4.  Between key and value Load discards white space, at most one       *)
(* delimiter and the white space after it; all the rest of the line is the *)
(* value (`k==v` loads as k with value `=v`).  Stated for the lines whose   *)
(* last byte is plain, so that a value is present.                         *)
(***************************************************************************)
C4_OneDelimiterDiscarded ==
    (pc # "loop" /\ IsKeyLine(stream) /\ IsPlain(stream[Len(stream)])
        /\ ValueStart(stream) <= Len(stream))
    => (pc = "returned"
        /\ data = (KeyOf(stream) :>
                     unescape(From(stream, ValueStart(stream) - 1), FALSE).s))

(***************************************************************************)
(* C5.  A natural line of a key-value record that ends with an odd number  *)
(* of backslashes continues on the next natural line: the last backslash,  *)
(* the end-of-line and the leading white space of the next natural line    *)
(* are dropped and nothing replaces them.  One that ends with an even      *)
(* number ends the logical line, backslashes kept, and 2n backslashes      *)
(* decode to n.  So the round of Load that starts on a record reads        *)
(* exactly the logical line of the grammar.                                *)
(***************************************************************************)
\* The logical line of the grammar that the natural line at i begins or
\* continues.
RECURSIVE LogicalLine(_, _)
LogicalLine(s, i) ==
    LET j == FirstNonSpace(s, i)
        e == NaturalLineEnd(s, j)
    IN IF e <= Len(s) /\ TrailingBackslashes(s, j, e) % 2 = 1
       THEN SubSeq(s, j, e - 2) \o LogicalLine(s, AfterEol(s, e))
       ELSE SubSeq(s, j, e - 1)

C5_ContinuationByOddBackslashes ==
    [][LET s == stream
           j == FirstNonSpace(s, pos)
           e == NaturalLineEnd(s, j)
           m == TrailingBackslashes(s, j, e)
       IN \* a record begins at pos with a key byte, and an end-of-line
          \* ends its natural line
          (pc = "loop" /\ j <= Len(s) /\ IsPlain(s[j]) /\ e <= Len(s))
          => /\ line' = LogicalLine(s, pos)
             /\ m % 2 = 0 =>
                  /\ line' = SubSeq(s, j, e - 1)
                  /\ pos' = AfterEol(s, e)
                  /\ unescape(Backslashes(m), FALSE).s = Backslashes(m \div 2)
      ]_vars

(***************************************************************************)
(* C6.  A natural line whose first byte after the white space is '#' or    *)
(* '!', read while no byte is accumulated for the logical line, adds no    *)
(* pair and does not continue, whatever it ends with: the round of Load    *)
(* that reads it leaves the table alone and stops right after the          *)
(* end-of-line of that natural line.                                       *)
(***************************************************************************)
\* The natural line at i holds a single backslash and a complete
\* end-of-line: reading it accumulates nothing and goes on.
LoneBackslashLine(s, i) ==
    LET j == FirstNonSpace(s, i) IN
    /\ j + 1 <= Len(s)
    /\ s[j] = BS
    /\ IsEol(s[j + 1])
    /\ s[j + 1] = CR => j + 2 <= Len(s)

\* Where the reader stands, still with nothing accumulated, after the lone
\* backslash lines from i on.
RECURSIVE NothingAccumulated(_, _)
NothingAccumulated(s, i) ==
    IF LoneBackslashLine(s, i)
    THEN NothingAccumulated(s, AfterEol(s, FirstNonSpace(s, i) + 1))
    ELSE i

CommentAt(s, i) ==
    LET j == FirstNonSpace(s, i) IN j <= Len(s) /\ (s[j] = HASH \/ s[j] = BANG)

C6_CommentNeverContinues ==
    [][LET s == stream
           c == NothingAccumulated(s, pos)
           e == NaturalLineEnd(s, c)
       IN (pc = "loop" /\ CommentAt(s, c))
          => /\ data' = data
             /\ count' = count
             /\ IF e <= Len(s) /\ (s[e] = LF \/ e + 1 <= Len(s))
                THEN pc' = "loop" /\ pos' = AfterEol(s, e)
                ELSE pc' = "returned"
      ]_vars

\* A comment that ends with a backslash was read, and the natural line
\* after it was loaded as a pair of its own.
C6_Witness ==
    /\ pc = "returned"
    /\ Len(stream) >= 4
    /\ stream[1] = HASH
    /\ stream[2] = BS
    /\ stream[3] = LF
    /\ IsPlain(stream[4])
    /\ count = 1

(***************************************************************************)
(* C9.  When the reader reports a failure other than end-of-stream, no     *)
(* pair is decoded or stored after the failure is observed: the round of   *)
(* Load that returns the error leaves the table and the count alone.       *)
(***************************************************************************)
C9_NoPairAfterFailure ==
    [][(pc = "loop" /\ pc' = "returned" /\ err' = "ErrIO")
          => (data' = data /\ count' = count)]_vars

(***************************************************************************)
(* C1.  Round trip: a table of ASCII keys (not empty) and values (empty or *)
(* not), written by Store with either ascii flag and loaded into an empty  *)
(* table, loads as the same pairs.                                         *)
(***************************************************************************)
IsAsciiTable(m) ==
    \A k \in DOMAIN m :
        /\ Len(k) > 0
        /\ \A i \in 1..Len(k) : k[i] < 128
        /\ \A i \in 1..Len(m[k]) : m[k][i] < 128

C1_RoundTripAscii ==
    (pc \in {"returned", "panicked"} /\ Len(hist) = 1 /\ IsAsciiTable(hist[1]))
    => (pc = "returned" /\ err = "nil" /\ data = hist[1])

(***************************************************************************)
(* C8.  Idempotence: storing and loading what a store and a load gave      *)
(* gives the same table again, load(store(load(store(T)))) =               *)
(* load(store(T)).                                                         *)
(***************************************************************************)
C8_StoreLoadIdempotent ==
    (pc = "returned" /\ Len(hist) = 2) => data = hist[2]

(***************************************************************************)
(* C2.  A \uXXXX escape of a high surrogate followed at once by a \uXXXX   *)
(* escape of a low surrogate decodes to the one scalar above U+FFFF that   *)
(* the pair encodes, and twelve bytes are consumed.                        *)
(***************************************************************************)
IsHex(b) == (48 <= b /\ b <= 57) \/ (97 <= b /\ b <= 102) \/ (65 <= b /\ b <= 70)

HexOf(b) == IF b <= 57 THEN b - 48 ELSE IF b >= 97 THEN b - 87 ELSE b - 55

\* s holds a well-formed \uXXXX at index i; its value.
IsUnicodeEscape(s, i) ==
    /\ i + 5 <= Len(s)
    /\ s[i] = BS
    /\ s[i + 1] = 117
    /\ \A d \in 2..5 : IsHex(s[i + d])

EscapeValue(s, i) ==
    HexOf(s[i + 2]) * 4096 + HexOf(s[i + 3]) * 256 + HexOf(s[i + 4]) * 16 + HexOf(s[i + 5])

IsSurrogatePair(s) ==
    /\ IsUnicodeEscape(s, 1)
    /\ IsUnicodeEscape(s, 7)
    /\ 55296 <= EscapeValue(s, 1) /\ EscapeValue(s, 1) <= 56319
    /\ 56320 <= EscapeValue(s, 7) /\ EscapeValue(s, 7) <= 57343

C2_SurrogatePairDecodes ==
    (pc = "done" /\ IsSurrogatePair(stream))
    => res = <<65536 + (EscapeValue(stream, 1) - 55296) * 1024
                     + (EscapeValue(stream, 7) - 56320), 12>>

(***************************************************************************)
(* C7.  A `\u` followed by fewer than four hexadecimal digits decodes to   *)
(* U+FFFD and consumes six bytes, as a well-formed escape does.  Stated    *)
(* for the inputs that hold six bytes.                                     *)
(***************************************************************************)
C7_ShortUnicodeEscapeConsumesSix ==
    (pc = "done" /\ Len(stream) >= 6 /\ stream[1] = BS /\ stream[2] = 117
        /\ \E d \in 3..6 : ~IsHex(stream[d]))
    => res = <<RuneError, 6>>

(***************************************************************************)
(* C10.  The comment header that Save writes holds exactly one '\n' for    *)
(* every end-of-line sequence of the comments string ('\n', '\r', '\r\n'   *)
(* or a run of them), and no other end-of-line byte.                       *)
(***************************************************************************)
\* The number of maximal runs of end-of-line runes in text.
EolRuns(text) ==
    Cardinality({i \in 1..Len(text) :
                    IsEol(text[i]) /\ (i = 1 \/ ~IsEol(text[i - 1]))})

C10_CommentEolNormalized ==
    pc = "stored"
    => LET h == out[1] IN
       /\ \A i \in 1..Len(h) : h[i] # CR
       /\ Cardinality({i \in 1..Len(h) : h[i] = LF}) = EolRuns(comments)

(***************************************************************************)
(* The defaults chain, stated on the tables without the methods.           *)
(***************************************************************************)
\* The indices of the tables of the chain that starts at d, in order.
RECURSIVE ChainFrom(_, _)
ChainFrom(h, d) == IF d = 0 THEN <<>> ELSE <<d>> \o ChainFrom(h, h[d].defaults)

InChain(h, d) == {ChainFrom(h, d)[i] : i \in 1..Len(ChainFrom(h, d))}

\* The maps of a table with map m and defaults d and of its chain, in order.
ChainMaps(h, m, d) ==
    <<m>> \o [i \in 1..Len(ChainFrom(h, d)) |-> h[ChainFrom(h, d)[i]].data]

\* The place in the sequence of maps c of the first map that holds key,
\* 0 when none does.
FirstHolder(c, key) ==
    IF \A i \in 1..Len(c) : key \notin DOMAIN c[i] THEN 0
    ELSE CHOOSE i \in 1..Len(c) :
            /\ key \in DOMAIN c[i]
            /\ \A j \in 1..(i - 1) : key \notin DOMAIN c[j]

(***************************************************************************)
(* C12.  Lookup(key) returns the value of the first table along the chain  *)
(* (the table, its defaults, the defaults' defaults, ...) whose own map    *)
(* holds the key, with found = true, and ("", false) when no table of the  *)
(* chain holds it; so an entry of the table shadows the entries of its     *)
(* defaults.  Get returns the same value, or the empty string.             *)
(***************************************************************************)
C12_LookupFirstAlongChain ==
    LET c == ChainMaps(tables, data, defaults) IN
    /\ ret.op = "Lookup" =>
         LET i == FirstHolder(c, ret.key) IN
         IF i = 0 THEN ret.value = <<>> /\ ~ret.found
         ELSE ret.value = c[i][ret.key] /\ ret.found
    /\ ret.op = "Get" =>
         LET i == FirstHolder(c, ret.key) IN
         ret.value = IF i = 0 THEN <<>> ELSE c[i][ret.key]

\* Lookup found a key in the defaults' defaults that the defaults hold
\* too, with another value, and that the table itself does not hold.
C12_Witness ==
    /\ ret.op = "Lookup"
    /\ ret.found
    /\ defaults # 0
    /\ ret.key \notin DOMAIN data
    /\ ret.key \in DOMAIN tables[defaults].data
    /\ tables[defaults].defaults # 0
    /\ ret.key \in DOMAIN tables[tables[defaults].defaults].data
    /\ tables[tables[defaults].defaults].data[ret.key] # ret.value

(***************************************************************************)
(* C13.  Set, Delete and Clear never change a table of the defaults chain  *)
(* (nor any other table); after Delete or Clear, a key that the chain of   *)
(* the defaults holds and the table no longer holds is returned by Get     *)
(* with the value it has there.                                            *)
(***************************************************************************)
C13_DefaultsUntouched ==
    [][ret'.op \in {"Set", "Delete", "Clear"} =>
          /\ tables' = tables
          /\ defaults' = defaults
          /\ \A key \in TableKeys :
               LET c == ChainMaps(tables, EmptyMap, defaults)
                   i == FirstHolder(c, key)
               IN (i # 0 /\ key \notin DOMAIN data')
                  => TableLookup(tables', data', defaults', key) = <<c[i][key], TRUE>>
      ]_vars

\* Clear was called on a table whose defaults table holds a pair.
C13_Witness ==
    /\ ret.op = "Clear"
    /\ data = EmptyMap
    /\ defaults # 0
    /\ tables[defaults].data # EmptyMap
    /\ Len(tables) >= 2

(***************************************************************************)
(* C14.  After ClearAll the table and every table of its defaults chain    *)
(* hold no pair: Keys has no key to return and Lookup misses for every     *)
(* key; and a table outside the chain that found a key in a table of the   *)
(* chain no longer finds it.                                               *)
(***************************************************************************)
C14_ClearAllEmptiesChain ==
    [][ret'.op = "ClearAll" =>
          /\ data' = EmptyMap
          /\ defaults' = defaults
          /\ \A t \in InChain(tables, defaults) : tables'[t].data = EmptyMap
          /\ keysOfChain(tables', data', defaults') = {}
          /\ \A key \in TableKeys :
               TableLookup(tables', data', defaults', key) = <<<<>>, FALSE>>
          /\ \A t \in (1..Len(tables)) \ InChain(tables, defaults) :
               \A key \in TableKeys :
                 LET ids == <<t>> \o ChainFrom(tables, tables[t].defaults)
                     i == FirstHolder(ChainMaps(tables, tables[t].data,
                                                tables[t].defaults), key)
                 IN (i # 0 /\ ids[i] \in InChain(tables, defaults))
                    => TableLookup(tables', tables'[t].data, tables'[t].defaults, key)
                         = <<<<>>, FALSE>>
      ]_vars

\* ClearAll was called on a table whose defaults are the defaults of
\* another table, which holds a key of its own.
C14_Witness ==
    /\ ret.op = "ClearAll"
    /\ defaults # 0
    /\ \E t \in (1..Len(tables)) \ InChain(tables, defaults) :
         /\ tables[t].defaults \in InChain(tables, defaults)
         /\ tables[t].data # EmptyMap

LowerHex == <<48, 49, 50, 51, 52, 53, 54, 55, 56, 57, 97, 98, 99, 100, 101, 102>>

UnicodeEscapeOf(u) ==
    <<BS, 117, LowerHex[((u \div 4096) % 16) + 1], LowerHex[((u \div 256) % 16) + 1],
      LowerHex[((u \div 16) % 16) + 1], LowerHex[(u % 16) + 1]>>

IsPrintable(b) == 32 <= b /\ b <= 126

\* What stands for the rune r in ASCII-safe text.
AsciiFormOf(r) ==
    IF IsPrintable(r) THEN <<r>>
    ELSE IF r > 65535
    THEN UnicodeEscapeOf(55296 + ((r - 65536) \div 1024))
         \o UnicodeEscapeOf(56320 + ((r - 65536) % 1024))
    ELSE UnicodeEscapeOf(r)

StartsWith(s, i, t) == i + Len(t) - 1 <= Len(s) /\ SubSeq(s, i, i + Len(t) - 1) = t

\* The bytes of s from i on are the ASCII forms of the runes of t from j
\* on, each with or without a backslash before it.
RECURSIVE IsAsciiFormFrom(_, _, _, _)
IsAsciiFormFrom(s, i, t, j) ==
    IF j > Len(t) THEN i = Len(s) + 1
    ELSE LET f == AsciiFormOf(t[j]) IN
         \/ StartsWith(s, i, f) /\ IsAsciiFormFrom(s, i + Len(f), t, j + 1)
         \/ StartsWith(s, i, <<BS>> \o f) /\ IsAsciiFormFrom(s, i + Len(f) + 1, t, j + 1)

C11_AsciiStoreIsPrintable ==
    (pc = "stored" /\ ascii /\ ret.op = "Store") =>
      \A i \in 1..(Len(out) \div 2) :
        /\ \A j \in 1..Len(out[2 * i - 1]) : IsPrintable(out[2 * i - 1][j])
        /\ \E k \in DOMAIN data :
             IsAsciiFormFrom(out[2 * i - 1], 1, k \o <<EQ>> \o data[k], 1)

\* Store wrote, with ascii = true, a pair that holds a rune above U+FFFF
\* and a control character.
C11_Witness ==
    /\ pc = "stored"
    /\ ascii
    /\ ret.op = "Store"
    /\ \E k \in DOMAIN data :
         /\ \E i \in 1..Len(k) : k[i] > 65535
         /\ \E i \in 1..Len(data[k]) : data[k][i] = TAB

(***************************************************************************)
(* The command-line conventions, stated on the arguments without the       *)
(* parser: what the calls of Next are to return up to the first EndOption, *)
(* and the arguments left then.                                            *)
(***************************************************************************)
\* c is an option character of the options string o.
IsDeclared(o, c) ==
    /\ 32 < c /\ c < 127 /\ c # COLON /\ c # DASH
    /\ \E i \in 1..Len(o) : o[i] = c

\* The declared character c is followed by ':' in o.
TakesValue(o, c) ==
    LET i == CHOOSE i \in 1..Len(o) : o[i] = c /\ \A j \in 1..(i - 1) : o[j] # c
    IN i < Len(o) /\ o[i + 1] = COLON

Returned(r, e, v) == [rune |-> r, err |-> e, optArg |-> v]

\* From the n-th argument of a (the program's name is the first) and the
\* k-th byte of it, 0 before the argument is looked at.
RECURSIVE ExpectedFrom(_, _, _, _)
ExpectedFrom(a, o, n, k) ==
    IF n > Len(a)
    THEN [calls |-> <<Returned(EndOption, "nil", <<>>)>>, rest |-> <<>>]
    ELSE LET s == a[n] IN
      IF k = 0
      THEN IF Len(s) <= 1 \/ s[1] # DASH
           THEN [calls |-> <<Returned(EndOption, "nil", <<>>)>>,
                 rest |-> SubSeq(a, n, Len(a))]
           ELSE IF s = <<DASH, DASH>>
           THEN [calls |-> <<Returned(EndOption, "nil", <<>>)>>,
                 rest |-> SubSeq(a, n + 1, Len(a))]
           ELSE ExpectedFrom(a, o, n, 2)
      ELSE IF k > Len(s) THEN ExpectedFrom(a, o, n + 1, 0)
      ELSE
        LET c == s[k]
            then(x, m, j) == LET e == ExpectedFrom(a, o, m, j) IN
                             [calls |-> <<x>> \o e.calls, rest |-> e.rest]
        IN
        IF ~IsDeclared(o, c) THEN then(Returned(c, "ErrOption", <<>>), n, k + 1)
        ELSE IF ~TakesValue(o, c) THEN then(Returned(c, "nil", <<>>), n, k + 1)
        ELSE IF k < Len(s)
             THEN then(Returned(c, "nil", SubSeq(s, k + 1, Len(s))), n + 1, 0)
        ELSE IF n < Len(a) THEN then(Returned(c, "nil", a[n + 1]), n + 2, 0)
        ELSE then(Returned(c, "ErrNoArg", <<>>), n + 1, 0)

(***************************************************************************)
(* C16.  The calls of Next return the option characters in command-line    *)
(* order, one per call; after an option declared with ':' OptArg returns   *)
(* the rest of its argument when that is not empty and the next argument   *)
(* otherwise; a character that is not declared is returned with ErrOption, *)
(* a value-taking option with no argument left with ErrNoArg, and the      *)
(* options after them are parsed; when Next returns EndOption, Args() is   *)
(* the arguments that were not used as options or as values.               *)
(***************************************************************************)
C16_NextFollowsCommandLine ==
    LET e == ExpectedFrom(args, opts, 2, 0) IN
    /\ \A n \in 1..Len(calls) : n <= Len(e.calls) => calls[n] = e.calls[n]
    /\ Len(calls) = Len(e.calls) => Args = e.rest

\* Next returned EndOption for the first time, after an undeclared option,
\* an option with its value and at least three calls; an argument is left.
C16_Witness ==
    /\ Len(calls) = Len(ExpectedFrom(args, opts, 2, 0).calls)
    /\ Len(calls) >= 3
    /\ calls[Len(calls)].rune = EndOption
    /\ \E n \in 1..Len(calls) : calls[n].err = "ErrOption"
    /\ \E n \in 1..Len(calls) : calls[n].optArg # <<>>

(***************************************************************************)
(* C19.  End of options is sticky: once Next has returned EndOption, every *)
(* later call returns (EndOption, nil) and leaves what Args() returns      *)
(* unchanged, whatever ended the options and whatever the arguments left   *)
(* look like.                                                              *)
(***************************************************************************)
C19_EndOptionIsSticky ==
    [][(/\ Len(calls) > 0
        /\ calls[Len(calls)].rune = EndOption
        /\ Len(calls') = Len(calls) + 1)
       => /\ calls'[Len(calls')].rune = EndOption
          /\ calls'[Len(calls')].err = "nil"
          /\ Args' = Args
      ]_vars

(***************************************************************************)
(* C17.  Escape decoding is total and makes progress: on bytes that begin  *)
(* with a backslash unescapeRune consumes at least one byte and no more    *)
(* than there are; unescape with split false does not panic, consumes all  *)
(* the bytes and yields scalars only, at least one when there is a byte:   *)
(* a malformed escape gives a substitute and never a failure.              *)
(***************************************************************************)
C17_DecodingTotalAndProgresses ==
    /\ (pc \in {"done", "decoded"} /\ Len(stream) > 0 /\ stream[1] = BS)
       => (1 <= res[2] /\ res[2] <= Len(stream))
    /\ pc = "decoded"
       => /\ ~ret.panic
          /\ ret.n = Len(stream)
          /\ Len(stream) > 0 => Len(ret.s) > 0
          /\ \A i \in 1..Len(ret.s) :
               0 <= ret.s[i] /\ ret.s[i] <= MaxRune /\ ~IsSurrogate(ret.s[i])
          /\ TrailingBackslashes(stream, 1, Len(stream) + 1) % 2 = 1
             => ret.s[Len(ret.s)] = RuneError

\* `\ud800\` was decoded: an orphan surrogate and a lone trailing backslash.
C17_Witness ==
    /\ pc = "decoded"
    /\ stream = <<BS, 117, 100, 56, 48, 48, BS>>
    /\ res = <<RuneError, 6>>
    /\ ret.s = <<RuneError, RuneError>>

(***************************************************************************)
(* C18.  Every non-empty natural line of the header that Save writes       *)
(* begins with '#' or '!' and the header ends with an end-of-line; so      *)
(* loading what Save wrote gives the pairs that loading what Store wrote   *)
(* for the same table gives: the comments add, change and swallow no pair. *)
(***************************************************************************)
C18_HeaderIsOnlyComments ==
    /\ (pc = "stored" /\ ret.op = "Save") =>
         LET h == out[1] \o out[2] IN
         /\ IsEol(h[Len(h)])
         /\ \A i \in 1..Len(h) :
              (~IsEol(h[i]) /\ (i = 1 \/ IsEol(h[i - 1])))
              => (h[i] = HASH \/ h[i] = BANG)
    /\ (pc \in {"returned", "panicked"} /\ ret.op = "Save") =>
         LET st == loadAll(Flatten(SubSeq(out, 3, Len(out))), 1, EmptyMap) IN
         /\ (pc = "panicked") = st.panic
         /\ pc = "returned" => data = st.data

\* What Save wrote for a pair and comments of two lines, the second
\* without a comment prefix, was loaded.
C18_Witness ==
    /\ pc = "returned"
    /\ ret.op = "Save"
    /\ data # EmptyMap
    /\ \E i \in 1..(Len(comments) - 1) : IsEol(comments[i]) /\ comments[i + 1] = 97

====
